---- MODULE Spec2Model ----
(***************************************************************************)
(* A model of png_parser.c: the byte cursor (png_fetchN), the chunk reader *)
(* (png_check, png_fetch_next_chunk), the header checks and the IDAT       *)
(* gathering of main / png_decompress_idat, and the scanline defilter loop *)
(* of main with its four predictor functions.                              *)
(*                                                                         *)
(* Bytes are naturals 0..255.  C integers wider than a byte are kept as    *)
(* little-endian base-256 digit sequences of their width (uint32_t: 4      *)
(* digits, size_t: 8 digits), so that wraparound is the code's.            *)
(***************************************************************************)
EXTENDS Integers, Sequences, FiniteSets

VARIABLES
    file,        \* struct mapped_file: the bytes of the mapped file
    state,       \* struct png_state of main: [size, index]
    c,           \* struct png_chunk c of main: [size, type, data]
    hdr,         \* the IHDR fields main reads (width .. interlace)
    pixel_size,  \* size_t pixel_size of main
    raw_size,    \* size_t raw_size of main
    state_copy,  \* struct png_state state_copy of png_decompress_idat
    chunk,       \* struct png_chunk c of png_decompress_idat
    input,       \* the gathered IDAT bytes (void *input)
    input_size,  \* size_t input_size
    ret,         \* the value the last png_* call returned
    failedAt,    \* which return statement of png_fetch_next_chunk was taken
    status,      \* what uncompress returned
    out_size,    \* size_t out_size after uncompress
    raw_data,    \* the buffer raw_data / buf of main
    y,           \* the row counter of the defilter loop
    out,         \* foo.ppm: [open, rows]
    pc,          \* main's position
    given        \* the input this run was built from: the file, and the image
                 \* behind the codec's output (never read by the code)

vars == <<file, state, c, hdr, pixel_size, raw_size, state_copy, chunk, input,
          input_size, ret, failedAt, status, out_size, raw_data, y, out, pc, given>>

(***************************************************************************)
(* Bounds of the model.                                                    *)
(***************************************************************************)
MaxChunks == 3
MaxTrim == 5
MaxWidth == 2
MaxHeight == 2

(***************************************************************************)
(* Fixed-width unsigned arithmetic on little-endian base-256 digits.       *)
(***************************************************************************)
U32Bytes == 4
SizeTBytes == 8

\* a digit sequence of any width
Wide == Seq(0..255)

RECURSIVE Digits(_, _)
Digits(n, k) == IF k = 0 THEN <<>> ELSE <<n % 256>> \o Digits(n \div 256, k - 1)

Ext(a, k) == [d \in 1..k |-> IF d <= Len(a) THEN a[d] ELSE 0]

AddCarry[a \in Wide, b \in Wide, carry \in 0..1] ==
    IF a = <<>> THEN <<>>
    ELSE LET s == Head(a) + Head(b) + carry
         IN  <<s % 256>> \o AddCarry[Tail(a), Tail(b), s \div 256]

\* a + b in the width of a (both of the same width), wrapping
AddW(a, b) == AddCarry[a, b, 0]

MulDigit[a \in Wide, d \in 0..255, carry \in 0..255] ==
    IF a = <<>> THEN <<>>
    ELSE LET s == Head(a) * d + carry
         IN  <<s % 256>> \o MulDigit[Tail(a), d, s \div 256]

MulRec[a \in Wide, b \in Wide] ==
    IF a = <<>> THEN <<>>
    ELSE IF b = <<>> THEN Ext(<<>>, Len(a))
    ELSE AddW(MulDigit[a, Head(b), 0],
              <<0>> \o MulRec[SubSeq(a, 1, Len(a) - 1), SubSeq(b, 2, Len(a))])

\* a * b in the width of a (both of the same width), wrapping
MulW(a, b) == MulRec[a, b]

GtRec[a \in Wide, b \in Wide] ==
    IF a = <<>> THEN FALSE
    ELSE LET n == Len(a)
         IN  IF a[n] # b[n] THEN a[n] > b[n]
             ELSE GtRec[SubSeq(a, 1, n - 1), SubSeq(b, 1, n - 1)]

\* a > b, both of the same width
GtW(a, b) == GtRec[a, b]

\* the value of a, for an a below 2^16
ToNat(a) == IF Len(a) = 0 THEN 0
            ELSE IF Len(a) = 1 THEN a[1] ELSE a[1] + 256 * a[2]

SizeT(n) == Digits(n, SizeTBytes)

(***************************************************************************)
(* Helpers of the C library the code calls.                                *)
(***************************************************************************)
RECURSIVE strncmp(_, _, _)
\* 0 when the first n bytes agree (or both strings end at the same NUL)
strncmp(s1, s2, n) ==
    IF n = 0 THEN 0
    ELSE IF s1 = <<>> \/ s2 = <<>> THEN (IF s1 = s2 THEN 0 ELSE 1)
    ELSE IF Head(s1) # Head(s2) THEN 1
    ELSE IF Head(s1) = 0 THEN 0
    ELSE strncmp(Tail(s1), Tail(s2), n - 1)

Signature == <<137, 80, 78, 71, 13, 10, 26, 10>>
IHDR == <<73, 72, 68, 82>>
IDAT == <<73, 68, 65, 84>>
IEND == <<73, 69, 78, 68>>
tEXt == <<116, 69, 88, 116>>

(***************************************************************************)
(* The cursor and the chunk reader.  A call is an operator from the        *)
(* png_state it is given to a record of what it returns and leaves behind. *)
(***************************************************************************)
offset_of(ptr, off) == ptr + off

\* the bytes memcpy copies from the mapped file
Bytes(buf, from, count) == SubSeq(buf, from + 1, from + count)

\* the four bytes read as a big-endian number
be_host32(val) == <<val[4], val[3], val[2], val[1]>>

png_fetchN(buf, st, count) ==
    IF st.index + count > st.size
    THEN [ret |-> 1, st |-> st, out |-> <<>>]
    ELSE [ret |-> 0,
          st  |-> [st EXCEPT !.index = @ + count],
          out |-> Bytes(buf, offset_of(0, st.index), count)]

png_fetch32(buf, st) == png_fetchN(buf, st, 4)

\* state->index + out->size + 4 > state->size, in size_t
ChunkOverruns(st, size) ==
    GtW(AddW(AddW(SizeT(st.index), Ext(size, SizeTBytes)), SizeT(4)), SizeT(st.size))

\* a reader that steps over the payload and forgets the checksum
SkipChunkNoCrc(st, size) == [st EXCEPT !.index = @ + ToNat(size)]

\* state->index += out->size + 4
SkipChunk(st, size) == [st EXCEPT !.index = @ + ToNat(size) + 4]

png_fetch_next_chunk(buf, st, old) ==
    LET r1 == png_fetch32(buf, st) IN
    IF r1.ret # 0
    THEN [ret |-> 1, st |-> r1.st, c |-> old, at |-> "size"]
    ELSE
    LET size == be_host32(r1.out)
        r2   == png_fetchN(buf, r1.st, 4) IN
    IF r2.ret # 0
    THEN [ret |-> 1, st |-> r2.st, c |-> [old EXCEPT !.size = size], at |-> "type"]
    ELSE
    LET got == [old EXCEPT !.size = size, !.type = r2.out] IN
    IF ChunkOverruns(r2.st, size)
    THEN [ret |-> 1, st |-> r2.st, c |-> got, at |-> "length"]
    ELSE [ret |-> 0,
          st  |-> SkipChunk(r2.st, size),
          c   |-> [got EXCEPT !.data = offset_of(0, r2.st.index)],
          at  |-> "none"]

png_check(buf, st) ==
    IF st.size < 8
    THEN [ret |-> 1, st |-> st]
    ELSE LET st2 == [st EXCEPT !.index = @ + 8]
         IN  [ret |-> strncmp(Bytes(buf, offset_of(0, st2.index - 8), 8), Signature, 8),
              st  |-> st2]

\* the bytes a chunk's data pointer and size name
Payload(buf, ch) == Bytes(buf, ch.data, ToNat(ch.size))

\* a gatherer that puts the newest payload first
PrependIdat(inp, inp_size, data) == data \o SubSeq(inp, 1, inp_size)

\* lines 144-145: the buffer grown by the payload, copied to its end
AppendIdat(inp, inp_size, data) == SubSeq(inp, 1, inp_size) \o data

(***************************************************************************)
(* The header fields main reads from the IHDR payload, and what it derives.*)
(***************************************************************************)
ReadHeader(buf, ch) ==
    [width       |-> be_host32(Bytes(buf, offset_of(ch.data, 0), 4)),
     height      |-> be_host32(Bytes(buf, offset_of(ch.data, 4), 4)),
     bit_depth   |-> buf[offset_of(ch.data, 8) + 1],
     color_type  |-> buf[offset_of(ch.data, 9) + 1],
     compression |-> buf[offset_of(ch.data, 10) + 1],
     filter      |-> buf[offset_of(ch.data, 11) + 1],
     interlace   |-> buf[offset_of(ch.data, 12) + 1]]

is_truecolor(h) == (h.color_type \div 2) % 2 = 1
has_palette(h)  == h.color_type % 2 = 1
has_alpha(h)    == (h.color_type \div 4) % 2 = 1

PixelSize(h) == (IF has_alpha(h) THEN 4 ELSE 3) * (h.bit_depth \div 8)

\* (width * height * pixel_size) + height: the product of the two uint32_t
\* is taken in 32 bits, the rest in size_t
RawSize(h, ps) ==
    AddW(MulW(Ext(MulW(h.width, h.height), SizeTBytes), SizeT(ps)),
         Ext(h.height, SizeTBytes))

(***************************************************************************)
(* The files the runs start from: a signature, a header chunk and a chunk  *)
(* sequence, whole or cut short, and files that break one of the three.    *)
(***************************************************************************)
Crc == <<0, 0, 0, 0>>

BE32(w) == <<w[4], w[3], w[2], w[1]>>

\* a chunk as the file holds it: length, type tag, payload, checksum
Chunk(type, data) == BE32(Digits(Len(data), U32Bytes)) \o type \o data \o Crc

RECURSIVE Flatten(_)
Flatten(cs) == IF cs = <<>> THEN <<>>
               ELSE Chunk(Head(cs)[1], Head(cs)[2]) \o Flatten(Tail(cs))

AB == <<65, 66>>
CD == <<67, 68>>

ChunkKinds == {<<IDAT, AB>>, <<IDAT, CD>>, <<IDAT, <<>>>>, <<tEXt, AB>>, <<IEND, <<>>>>}

ChunkSeqs == UNION {[1..n -> ChunkKinds] : n \in 0..MaxChunks}

Dims == {Digits(1, U32Bytes), Digits(2, U32Bytes), <<0, 0, 1, 0>>}
BitDepths == {4, 8, 16}
ColorTypes == {0, 2, 3, 6}

HeaderPayload(w, h, bd, ct, comp, f, il) == BE32(w) \o BE32(h) \o <<bd, ct, comp, f, il>>

HeaderPayloads ==
    {HeaderPayload(w, h, bd, ct, 0, f, il) :
        w \in Dims, h \in Dims, bd \in BitDepths, ct \in ColorTypes,
        f \in {0, 1}, il \in {0, 1}}

GoodHeader == HeaderPayload(Digits(2, U32Bytes), Digits(2, U32Bytes), 8, 2, 0, 0, 0)

Trim(s, k) == SubSeq(s, 1, IF Len(s) > k THEN Len(s) - k ELSE 0)

\* a header followed by one image-data chunk and the end chunk
PlainChunks == <<<<IDAT, AB>>, <<IEND, <<>>>>>>
PlainFile(p) == Signature \o Chunk(IHDR, p) \o Flatten(PlainChunks)

HeaderInputs ==
    {[file |-> PlainFile(p), chunks |-> PlainChunks, wellformed |-> TRUE] :
        p \in HeaderPayloads}

\* a good header followed by every chunk sequence, whole or with its end cut off
LayoutInputs ==
    {[file       |-> Trim(Signature \o Chunk(IHDR, GoodHeader) \o Flatten(cs), k),
      chunks     |-> cs,
      wellformed |-> (k = 0)] : cs \in ChunkSeqs, k \in 0..MaxTrim}

\* every prefix of a signature and a header chunk
ShortInputs ==
    LET whole == Signature \o Chunk(IHDR, GoodHeader)
    IN  {[file |-> SubSeq(whole, 1, n), chunks |-> <<>>, wellformed |-> FALSE] :
            n \in 0..(Len(whole) - 1)}

\* a wrong signature; a first chunk that is not the header; a header of 12 bytes
OddInputs ==
    {[file |-> f, chunks |-> <<>>, wellformed |-> FALSE] :
        f \in {<<78, 79, 84, 80, 78, 71, 13, 10>> \o Chunk(IHDR, GoodHeader),
               Signature \o Chunk(IDAT, AB) \o Chunk(IEND, <<>>),
               Signature \o Chunk(IHDR, SubSeq(GoodHeader, 1, 12)) \o Chunk(IEND, <<>>),
               Signature \o Chunk(tEXt, GoodHeader) \o Chunk(IEND, <<>>)}}

Inputs == HeaderInputs \cup LayoutInputs \cup ShortInputs \cup OddInputs

(***************************************************************************)
(* main, from its first statement to the return of png_decompress_idat.    *)
(***************************************************************************)
NoChunk == [size |-> Digits(0, U32Bytes), type |-> <<>>, data |-> 0]
NoHeader == [width |-> Digits(0, U32Bytes), height |-> Digits(0, U32Bytes),
             bit_depth |-> 0, color_type |-> 0, compression |-> 0,
             filter |-> 0, interlace |-> 0]
NoFile == [open |-> FALSE, rows |-> <<>>]

Init ==
    \E in \in Inputs :
        /\ given = in
        /\ file = in.file
        /\ state = [size |-> Len(in.file), index |-> 0]
        /\ c = NoChunk
        /\ hdr = NoHeader
        /\ pixel_size = 0
        /\ raw_size = SizeT(0)
        /\ state_copy = [size |-> 0, index |-> 0]
        /\ chunk = NoChunk
        /\ input = <<>>
        /\ input_size = 0
        /\ ret = 0
        /\ failedAt = "none"
        /\ status = "none"
        /\ out_size = SizeT(0)
        /\ raw_data = <<>>
        /\ y = 0
        /\ out = NoFile
        /\ pc = "check"

\* lines 260-264
Check ==
    /\ pc = "check"
    /\ \E r \in {png_check(file, state)} :
        /\ state' = r.st
        /\ ret' = r.ret
        /\ pc' = IF r.ret # 0 THEN "end" ELSE "fetch_header"
    /\ UNCHANGED <<file, c, hdr, pixel_size, raw_size, state_copy, chunk, input,
                   input_size, failedAt, status, out_size, raw_data, y, out, given>>

\* lines 266-268
FetchHeader ==
    /\ pc = "fetch_header"
    /\ \E r \in {png_fetch_next_chunk(file, state, c)} :
        /\ state' = r.st
        /\ c' = r.c
        /\ ret' = r.ret
        /\ failedAt' = r.at
        /\ pc' = IF r.ret # 0 THEN "end" ELSE "assert_header"
    /\ UNCHANGED <<file, hdr, pixel_size, raw_size, state_copy, chunk, input,
                   input_size, status, out_size, raw_data, y, out, given>>

\* lines 270-271
AssertHeader ==
    /\ pc = "assert_header"
    /\ pc' = IF strncmp(IHDR, c.type, 4) = 0 /\ c.size = Digits(13, U32Bytes)
             THEN "header" ELSE "aborted"
    /\ UNCHANGED <<file, state, c, hdr, pixel_size, raw_size, state_copy, chunk, input,
                   input_size, ret, failedAt, status, out_size, raw_data, y, out, given>>

\* lines 272-295
ParseHeader ==
    /\ pc = "header"
    /\ \E h \in {ReadHeader(file, c)} :
        /\ hdr' = h
        /\ IF ~(is_truecolor(h) /\ ~has_palette(h))
           THEN pc' = "aborted" /\ UNCHANGED <<pixel_size, raw_size>>
           ELSE /\ pixel_size' = PixelSize(h)
                /\ IF h.filter # 0 \/ h.interlace # 0
                   THEN pc' = "aborted" /\ UNCHANGED raw_size
                   ELSE pc' = "decompress" /\ raw_size' = RawSize(h, PixelSize(h))
    /\ UNCHANGED <<file, state, c, state_copy, chunk, input, input_size, ret,
                   failedAt, status, out_size, raw_data, y, out, given>>

\* line 297 and lines 131-137: the call, and the locals of png_decompress_idat
EnterDecompress ==
    /\ pc = "decompress"
    /\ state_copy' = state
    /\ input' = <<>>
    /\ input_size' = 0
    /\ pc' = "gather"
    /\ UNCHANGED <<file, state, c, hdr, pixel_size, raw_size, chunk, ret, failedAt,
                   status, out_size, raw_data, y, out, given>>

\* lines 140-148: one turn of the gathering loop
Gather ==
    /\ pc = "gather"
    /\ \E r \in {png_fetch_next_chunk(file, state_copy, chunk)} :
        /\ state_copy' = r.st
        /\ chunk' = r.c
        /\ ret' = r.ret
        /\ failedAt' = r.at
        /\ IF r.ret # 0
           THEN pc' = "uncompress" /\ UNCHANGED <<input, input_size>>
           ELSE /\ pc' = "gather"
                /\ IF strncmp(IDAT, r.c.type, 4) # 0
                   THEN UNCHANGED <<input, input_size>>
                   ELSE /\ input' = AppendIdat(input, input_size, Payload(file, r.c))
                        /\ input_size' = input_size + ToNat(r.c.size)
    /\ UNCHANGED <<file, state, c, hdr, pixel_size, raw_size, status, out_size,
                   raw_data, y, out, given>>

\* what the codec may answer for a buffer of buf_size bytes
CodecAnswers(buf_size) ==
    {[status |-> s, out_size |-> buf_size] :
        s \in {"Z_OK", "Z_MEM_ERROR", "Z_BUF_ERROR", "Z_DATA_ERROR"}}
    \cup {[status |-> "Z_OK", out_size |-> SizeT(0)]}

\* lines 150-172, and the test of line 297
Uncompress ==
    /\ pc = "uncompress"
    /\ \E a \in CodecAnswers(raw_size) :
        /\ status' = a.status
        /\ out_size' = a.out_size
        /\ IF a.status \in {"Z_MEM_ERROR", "Z_BUF_ERROR", "Z_DATA_ERROR"}
           THEN ret' = 1 /\ pc' = "end"
           ELSE IF a.out_size # raw_size
           THEN ret' = ret /\ pc' = "aborted"
           ELSE ret' = 0 /\ pc' = "defilter"
    /\ UNCHANGED <<file, state, c, hdr, pixel_size, raw_size, state_copy, chunk,
                   input, input_size, failedAt, raw_data, y, out, given>>

Next == Check \/ FetchHeader \/ AssertHeader \/ ParseHeader \/ EnterDecompress
        \/ Gather \/ Uncompress

Spec == Init /\ [][Next]_vars

\* the program is sequential: a step that can be taken is taken
FairSpec == Spec /\ WF_vars(Next)

(***************************************************************************)
(* The predictor functions.  A pointer into raw_data is the offset of the  *)
(* byte it points to; line[k] is the byte at offset line + k.              *)
(***************************************************************************)
NULL == -1

At(buf, ptr, k) == buf[ptr + k + 1]

\* the conversion of an int to the uint8_t a function returns
U8(v) == v % 256

png_sub_filter(buf, line, ps, x, i) ==
    IF x = 0
    THEN At(buf, line, ps * x + i)
    ELSE U8(At(buf, line, ps * x + i) + At(buf, line, ps * (x - 1) + i))

png_up_filter(buf, line, prev_line, ps, x, i) ==
    IF prev_line = NULL
    THEN At(buf, line, ps * x + i)
    ELSE U8(At(buf, line, ps * x + i) + At(buf, prev_line, ps * x + i))

\* an average whose sum is taken in eight bits
png_avg_filter_u8(buf, line, prev_line, ps, x, i) ==
    LET left == IF x # 0 THEN At(buf, line, ps * (x - 1) + i) ELSE 0
        top  == IF prev_line # NULL THEN At(buf, prev_line, ps * x + i) ELSE 0
    IN  U8((U8(left + top) \div 2) + At(buf, line, ps * x + i))

png_avg_filter(buf, line, prev_line, ps, x, i) ==
    LET left == IF x # 0 THEN At(buf, line, ps * (x - 1) + i) ELSE 0
        top  == IF prev_line # NULL THEN At(buf, prev_line, ps * x + i) ELSE 0
    IN  U8(((left + top) \div 2) + At(buf, line, ps * x + i))

png_abs(x) == IF x < 0 THEN -x ELSE x

\* a Paeth predictor whose estimate a + b - c is taken in eight bits
png_paeth_filter_u8(buf, line, prev_line, ps, x, i) ==
    LET d  == At(buf, line, ps * x + i)
        a  == IF x # 0 THEN At(buf, line, ps * (x - 1) + i) ELSE 0
        b  == IF prev_line # NULL THEN At(buf, prev_line, ps * x + i) ELSE 0
        cc == IF prev_line # NULL /\ x # 0 THEN At(buf, prev_line, ps * (x - 1) + i) ELSE 0
        p  == U8(a + b - cc)
        pa == png_abs(p - a)
        pb == png_abs(p - b)
        pc_ == png_abs(p - cc)
    IN  IF pa <= pb /\ pa <= pc_ THEN U8(d + a)
        ELSE IF pb <= pc_ THEN U8(d + b)
        ELSE U8(d + cc)

png_paeth_filter(buf, line, prev_line, ps, x, i) ==
    LET d  == At(buf, line, ps * x + i)
        a  == IF x # 0 THEN At(buf, line, ps * (x - 1) + i) ELSE 0
        b  == IF prev_line # NULL THEN At(buf, prev_line, ps * x + i) ELSE 0
        cc == IF prev_line # NULL /\ x # 0 THEN At(buf, prev_line, ps * (x - 1) + i) ELSE 0
        p  == a + b - cc
        pa == png_abs(p - a)
        pb == png_abs(p - b)
        pc_ == png_abs(p - cc)
    IN  IF pa <= pb /\ pa <= pc_ THEN U8(d + a)
        ELSE IF pb <= pc_ THEN U8(d + b)
        ELSE U8(d + cc)

\* the switch of lines 331-350
ActualValue(buf, filter_method, line, prev_line, ps, x, i) ==
    CASE filter_method = 0 -> At(buf, line, x * ps + i)
      [] filter_method = 1 -> png_sub_filter(buf, line, ps, x, i)
      [] filter_method = 2 -> png_up_filter(buf, line, prev_line, ps, x, i)
      [] filter_method = 3 -> png_avg_filter(buf, line, prev_line, ps, x, i)
      [] filter_method = 4 -> png_paeth_filter(buf, line, prev_line, ps, x, i)
      [] OTHER -> 255

\* where line 352 stores the byte
StoreAt(line, ps, x, i) == line + x * ps + i + 1

RECURSIVE DefilterLine(_, _, _, _, _, _, _)
\* the two inner loops of lines 327-357, from byte k of the row on
DefilterLine(buf, filter_method, line, prev_line, ps, w, k) ==
    IF k >= w * ps THEN buf
    ELSE LET x == k \div ps
             i == k % ps
             actual_value == ActualValue(buf, filter_method, line, prev_line, ps, x, i)
         IN  DefilterLine([buf EXCEPT ![StoreAt(line, ps, x, i)] = actual_value],
                          filter_method, line, prev_line, ps, w, k + 1)

\* the row stride the loop indexes with: width * pixel_size + 1
Stride(w, ps) == w * ps + 1

LineOf(row, w, ps) == row * Stride(w, ps) + 1
PrevLineOf(row, w, ps) == IF row # 0 THEN (row - 1) * Stride(w, ps) + 1 ELSE NULL
FilterMethodOf(buf, row, w, ps) == buf[row * Stride(w, ps) + 1]

\* what line 355 prints of a row: the channels i < 3 of each pixel
PpmRow(buf, line, ps, w) ==
    LET per == IF ps < 3 THEN ps ELSE 3
    IN  [n \in 1..(w * per) |-> At(buf, line, ((n - 1) \div per) * ps + ((n - 1) % per))]

(***************************************************************************)
(* The images the defilter runs start from, and the encoder's filters that *)
(* produce the buffer the codec hands over.                                *)
(***************************************************************************)
Palette == <<0, 200, 100, 255, 7>>

\* the byte of channel i of pixel (x, row) of test image (a, b)
Sample(a, b, x, row, i) == Palette[((a * x + b * row + i) % Len(Palette)) + 1]

\* the image as a buffer of rows, each after the byte types[row + 1]
ImageBuffer(a, b, w, h, ps, types) ==
    [n \in 1..(Stride(w, ps) * h) |->
        LET row == (n - 1) \div Stride(w, ps)
            k   == (n - 1) % Stride(w, ps)
        IN  IF k = 0 THEN types[row + 1]
            ELSE Sample(a, b, (k - 1) \div ps, row, (k - 1) % ps)]

PaethPredictor(a, b, cc) ==
    LET p  == a + b - cc
        pa == IF p >= a THEN p - a ELSE a - p
        pb == IF p >= b THEN p - b ELSE b - p
        pc_ == IF p >= cc THEN p - cc ELSE cc - p
    IN  IF pa <= pb /\ pa <= pc_ THEN a ELSE IF pb <= pc_ THEN b ELSE cc

\* the predictor of filter type t from the neighbours left, up and up-left
Predictor(t, left, up, upleft) ==
    CASE t = 0 -> 0
      [] t = 1 -> left
      [] t = 2 -> up
      [] t = 3 -> (left + up) \div 2
      [] t = 4 -> PaethPredictor(left, up, upleft)
      [] OTHER -> 0

\* the neighbours of byte k of a row in buffer img
LeftOf(img, row, k, w, ps) ==
    IF k \div ps = 0 THEN 0 ELSE img[row * Stride(w, ps) + 1 + (k - ps) + 1]
UpOf(img, row, k, w, ps) ==
    IF row = 0 THEN 0 ELSE img[(row - 1) * Stride(w, ps) + 1 + k + 1]
UpLeftOf(img, row, k, w, ps) ==
    IF row = 0 \/ k \div ps = 0 THEN 0 ELSE img[(row - 1) * Stride(w, ps) + 1 + (k - ps) + 1]

\* the encoder: each byte less the predictor of the original bytes, modulo 256
Encode(img, w, h, ps) ==
    [n \in 1..Len(img) |->
        LET row == (n - 1) \div Stride(w, ps)
            k   == ((n - 1) % Stride(w, ps)) - 1
            t   == img[row * Stride(w, ps) + 1]
        IN  IF k < 0 THEN img[n]
            ELSE (img[n] + 256
                  - Predictor(t, LeftOf(img, row, k, w, ps), UpOf(img, row, k, w, ps),
                              UpLeftOf(img, row, k, w, ps))) % 256]

FilterBytes == 0..5

(***************************************************************************)
(* main, from the return of png_decompress_idat to its end.                *)
(***************************************************************************)
Width == ToNat(hdr.width)
Height == ToNat(hdr.height)

\* the state in which main, given a plain file with this header, has gathered
\* the image data and is about to call the codec
Gathered(h0) ==
    LET f   == PlainFile(HeaderPayload(h0.width, h0.height, h0.bit_depth, h0.color_type,
                                       h0.compression, h0.filter, h0.interlace))
        hd  == Len(Signature) + Len(Chunk(IHDR, GoodHeader))
    IN  [file       |-> f,
         state      |-> [size |-> Len(f), index |-> hd],
         c          |-> [size |-> Digits(13, U32Bytes), type |-> IHDR, data |-> Len(Signature) + 8],
         state_copy |-> [size |-> Len(f), index |-> Len(f)],
         chunk      |-> [size |-> Digits(0, U32Bytes), type |-> IEND, data |-> Len(f) - 4],
         input      |-> AB,
         given      |-> [file |-> f, chunks |-> PlainChunks, wellformed |-> TRUE]]

\* the defilter runs start where the codec is called, for every accepted
\* header of an image small enough to run
InitDefilter ==
    \E w \in 1..MaxWidth, h \in 1..MaxHeight, alpha \in BOOLEAN :
        LET h0 == [width |-> Digits(w, U32Bytes), height |-> Digits(h, U32Bytes),
                   bit_depth |-> 8, color_type |-> IF alpha THEN 6 ELSE 2,
                   compression |-> 0, filter |-> 0, interlace |-> 0]
            g  == Gathered(h0)
        IN  /\ hdr = h0
            /\ pixel_size = PixelSize(h0)
            /\ raw_size = RawSize(h0, PixelSize(h0))
            /\ raw_data = <<>>
            /\ given = g.given
            /\ out_size = SizeT(0)
            /\ status = "none"
            /\ file = g.file
            /\ state = g.state
            /\ c = g.c
            /\ state_copy = g.state_copy
            /\ chunk = g.chunk
            /\ input = g.input
            /\ input_size = Len(g.input)
            /\ ret = 1
            /\ failedAt = "size"
            /\ y = 0
            /\ out = NoFile
            /\ pc = "uncompress"

\* lines 150-172 when the codec succeeds: uncompress has filled raw_data with
\* raw_size bytes, here the filtered rows of one of the test images
Inflate ==
    /\ pc = "uncompress"
    /\ \E a \in 0..(Len(Palette) - 1), b \in 0..(Len(Palette) - 1) :
         \E types \in [1..Height -> FilterBytes] :
           LET img == ImageBuffer(a, b, Width, Height, pixel_size, types)
               enc == Encode(img, Width, Height, pixel_size)
           IN  /\ raw_data' = enc
               /\ given' = [file |-> given.file, chunks |-> given.chunks,
                            wellformed |-> given.wellformed,
                            orig |-> img, filtered |-> enc]
    /\ status' = "Z_OK"
    /\ out_size' = raw_size
    /\ ret' = 0
    /\ pc' = "defilter"
    /\ UNCHANGED <<file, state, c, hdr, pixel_size, raw_size, state_copy, chunk, input,
                   input_size, failedAt, y, out>>

\* lines 300-316
OpenOutput ==
    /\ pc = "defilter"
    /\ out' = [open |-> TRUE, rows |-> <<>>]
    /\ y' = 0
    /\ pc' = "rows"
    /\ UNCHANGED <<file, state, c, hdr, pixel_size, raw_size, state_copy, chunk, input,
                   input_size, ret, failedAt, status, out_size, raw_data, given>>

\* lines 317-359, one row whose filter byte names a filter
DefilterRow ==
    /\ pc = "rows"
    /\ y < Height
    /\ FilterMethodOf(raw_data, y, Width, pixel_size) \in 0..4
    /\ LET done == DefilterLine(raw_data, FilterMethodOf(raw_data, y, Width, pixel_size),
                                LineOf(y, Width, pixel_size), PrevLineOf(y, Width, pixel_size),
                                pixel_size, Width, 0)
       IN  /\ raw_data' = done
           /\ out' = [out EXCEPT !.rows = Append(@, PpmRow(done, LineOf(y, Width, pixel_size),
                                                          pixel_size, Width))]
    /\ y' = y + 1
    /\ UNCHANGED <<file, state, c, hdr, pixel_size, raw_size, state_copy, chunk, input,
                   input_size, ret, failedAt, status, out_size, pc, given>>

\* lines 317-359, one row whose filter byte names none: line 319 reads past
\* filter_methods and hands what it finds to printf, which either faults or
\* returns; if it returns, every byte of the row takes the default case
DefilterBadRow ==
    /\ pc = "rows"
    /\ y < Height
    /\ FilterMethodOf(raw_data, y, Width, pixel_size) \notin 0..4
    /\ \/ /\ pc' = "crashed"
          /\ UNCHANGED <<raw_data, out, y>>
       \/ /\ LET done == DefilterLine(raw_data, FilterMethodOf(raw_data, y, Width, pixel_size),
                                      LineOf(y, Width, pixel_size), PrevLineOf(y, Width, pixel_size),
                                      pixel_size, Width, 0)
             IN  /\ raw_data' = done
                 /\ out' = [out EXCEPT !.rows = Append(@, PpmRow(done, LineOf(y, Width, pixel_size),
                                                                pixel_size, Width))]
          /\ y' = y + 1
          /\ pc' = pc
    /\ UNCHANGED <<file, state, c, hdr, pixel_size, raw_size, state_copy, chunk, input,
                   input_size, ret, failedAt, status, out_size, given>>

\* lines 361-389: the loop is over, the output is closed, main returns
Finish ==
    /\ pc = "rows"
    /\ ~(y < Height)
    /\ out' = [out EXCEPT !.open = FALSE]
    /\ pc' = "returned"
    /\ UNCHANGED <<file, state, c, hdr, pixel_size, raw_size, state_copy, chunk, input,
                   input_size, ret, failedAt, status, out_size, raw_data, y, given>>

NextDefilter == Inflate \/ OpenOutput \/ DefilterRow \/ DefilterBadRow \/ Finish

SpecDefilter == InitDefilter /\ [][NextDefilter]_vars

(***************************************************************************)
(* The claims about the chunk reader, the header and the IDAT gathering,   *)
(* checked under Spec (C10 under FairSpec).                                *)
(***************************************************************************)
\* the positions of main from the call of png_decompress_idat on
IdatSteps == {"gather", "uncompress", "defilter"}

\* a header the specification calls unsupported
Unsupported(h) ==
    has_palette(h) \/ h.bit_depth # 8 \/ h.filter # 0 \/ h.interlace # 0

\* C1: a header with the palette bit set, a bit depth other than 8, a filter
\* method other than 0 or an interlace method other than 0 is rejected, and the
\* IDAT gathering and decompression step is never entered for it.
C1_UnsupportedNeverGathers ==
    (hdr # NoHeader /\ Unsupported(hdr)) => pc \notin IdatSteps

\* C3: every failing decode ends in an error returned to the caller (main's
\* end label), never in a process abort.
C3_NoAbort == pc # "aborted"

\* C4: a chunk whose declared length and checksum overrun the buffer is
\* rejected, is not emitted, and ends the chunk sequence as an error that is
\* told apart from normal exhaustion: the scan does not go on to hand what it
\* gathered to the codec as if the sequence had simply ended.
C4_TruncationIsAnError ==
    (failedAt = "length") => (ret # 0 /\ pc \notin {"uncompress", "defilter"})

RECURSIVE ConcatIdat(_)
\* the payloads of the chunks tagged IDAT, in file order
ConcatIdat(cs) ==
    IF cs = <<>> THEN <<>>
    ELSE (IF Head(cs)[1] = IDAT THEN Head(cs)[2] ELSE <<>>) \o ConcatIdat(Tail(cs))

\* C5: for a well-formed chunk sequence, the buffer handed to the codec is the
\* concatenation of the payloads of the IDAT chunks in file order, every other
\* chunk's payload left out, and its size is the sum of their lengths.
C5_IdatConcatenation ==
    (given.wellformed /\ (pc = "uncompress" \/ status # "none")) =>
        /\ input = ConcatIdat(given.chunks)
        /\ input_size = Len(ConcatIdat(given.chunks))

\* IDAT "AB", another chunk, IDAT "CD" has been gathered as "ABCD"
C5_Witness ==
    /\ pc = "uncompress"
    /\ given.wellformed
    /\ given.chunks = <<<<IDAT, AB>>, <<tEXt, AB>>, <<IDAT, CD>>>>
    /\ input = AB \o CD
    /\ input_size = 4

\* C8: index <= size always, and a read either succeeds and advances index by
\* the bytes it consumed, or fails for want of bytes and leaves index as it was.
C8_CursorInvariant ==
    [][/\ state'.index <= state'.size
       /\ state_copy'.index <= state_copy'.size
       /\ (pc = "fetch_header" /\ ret' = 0) =>
              state'.index = state.index + 8 + ToNat(c'.size) + 4
       /\ (pc = "fetch_header" /\ ret' # 0) => state'.index = state.index
       /\ (pc = "gather" /\ ret' = 0) =>
              state_copy'.index = state_copy.index + 8 + ToNat(chunk'.size) + 4
       /\ (pc = "gather" /\ ret' # 0) => state_copy'.index = state_copy.index]_vars

\* stride * height with stride = width * pixel_size + 1, in a width that
\* cannot wrap
ExactSize(h, ps) ==
    LET wide == SizeTBytes + U32Bytes
    IN  MulW(AddW(MulW(Ext(h.width, wide), Digits(ps, wide)), Digits(1, wide)),
             Ext(h.height, wide))

\* C9: the size of the buffer allocated and passed to the codec is exactly
\* stride * height, with no wraparound.
C9_RawSizeExact ==
    (pc \in IdatSteps \cup {"decompress"}) =>
        Ext(raw_size, SizeTBytes + U32Bytes) = ExactSize(hdr, pixel_size)

GivenType(row) == given.filtered[row * Stride(Width, pixel_size) + 1]

\* the offsets (from 1) of the pixel bytes of a row, and of a byte of it
RowBytes == 0..(Width * pixel_size - 1)
Pos(row, k) == row * Stride(Width, pixel_size) + 1 + k + 1

Loaded == pc \in {"defilter", "rows", "returned", "crashed"}

AllTypesValid == \A row \in 0..(Height - 1) : GivenType(row) \in 0..4

\* C2: a row whose filter byte is outside 0..4 stops the defiltering there:
\* no byte of that row or of a later row is overwritten, no further row is
\* processed, and main does not go on to close and return the output.
C2_InvalidFilterStops ==
    Loaded =>
        \A row \in 0..(Height - 1) :
            GivenType(row) \notin 0..4 =>
                /\ y <= row
                /\ \A n \in Pos(row, 0)..Len(raw_data) : raw_data[n] = given.filtered[n]
                /\ pc # "returned"

\* C6: after the loop, with every filter byte in 0..4, each byte is
\* (raw + predictor) mod 256, the predictor taken from the reconstructed
\* neighbours, absent neighbours counting as 0.
C6_Reconstruction ==
    (pc = "returned" /\ AllTypesValid) =>
        \A row \in 0..(Height - 1) : \A k \in RowBytes :
            raw_data[Pos(row, k)] =
                (given.filtered[Pos(row, k)]
                 + Predictor(GivenType(row),
                             LeftOf(raw_data, row, k, Width, pixel_size),
                             UpOf(raw_data, row, k, Width, pixel_size),
                             UpLeftOf(raw_data, row, k, Width, pixel_size))) % 256

\* a finished image with a Paeth row in which some byte took the up-left
\* neighbour, different from both others, and wrapped past 255
C6_Witness ==
    /\ pc = "returned"
    /\ AllTypesValid
    /\ \E row \in 1..(Height - 1) : \E k \in RowBytes :
        LET l  == LeftOf(raw_data, row, k, Width, pixel_size)
            u  == UpOf(raw_data, row, k, Width, pixel_size)
            ul == UpLeftOf(raw_data, row, k, Width, pixel_size)
        IN  /\ GivenType(row) = 4
            /\ k >= pixel_size
            /\ PaethPredictor(l, u, ul) = ul
            /\ ul # l /\ ul # u
            /\ given.filtered[Pos(row, k)] + ul > 255

\* C7: an image of at least two pixels a row and two rows, filtered row by
\* row by the encoder and then defiltered in place, is the original again.
C7_RoundTrip ==
    (pc = "returned" /\ AllTypesValid /\ Width >= 2 /\ Height >= 2) =>
        raw_data = given.orig

\* a two-row image filtered with Sub and Average has come back, and the
\* filtering had changed it
C7_Witness ==
    /\ pc = "returned"
    /\ Width >= 2 /\ Height >= 2
    /\ GivenType(0) = 1 /\ GivenType(1) = 3
    /\ given.filtered # given.orig
    /\ raw_data = given.orig

====
